---------------------------- MODULE Spec2Model ----------------------------
(***************************************************************************)
(* Model of the launchtube plugin: the SUBMIT_STELLAR_TRANSACTION and      *)
(* CHECK_LAUNCHTUBE_CREDITS action handlers, the transaction builder       *)
(* buildTransactionXDR, the address validator isValidStellarAddress and    *)
(* the relay client LaunchtubeService.                                     *)
(*                                                                         *)
(* JavaScript strings that the code inspects character by character are    *)
(* sequences of one-character strings; the empty sequence is the empty     *)
(* string.  Strings the code only compares or passes on are TLA+ strings,  *)
(* "" standing for an absent (undefined) or empty value, both falsy.       *)
(***************************************************************************)
EXTENDS Integers, Sequences, FiniteSets, TLC

VARIABLES
    addrIn,     \* SpecAddr: the value handed to isValidStellarAddress
    addrOut,    \* SpecAddr: "none" before the call, then "true" / "false"
    pc,         \* handler run: position between two awaits
    handler,    \* which action handler the current run executes
    details,    \* transactionDetails returned by generateObject
    runtime,    \* runtime settings of the current run (getSetting)
    env,        \* process.env of the current run
    config,     \* LaunchtubeService.config of the run's service instance
    account,    \* sourceAccount returned by server.loadAccount
    net,        \* requests issued and responses received so far in the current run
    cb,         \* contents handed to the callback in the current run
    ret,        \* handler return value: "none", "true", "false"
    result,     \* what LaunchtubeService.submitTransaction returned to the handler
    runs,       \* number of handler runs started
    ledgerSeq,  \* current sequence number of the source account on the ledger
    cop,        \* SpecClient: the relay client operation in progress
    cout,       \* SpecClient: outcome of the relay client operation
    lastCredits, \* history: what the last credit-check run reported to its callback
    other       \* SpecPair: the service of a second, concurrent credit-check run

addrVars == <<addrIn, addrOut>>
runVars == <<pc, handler, details, runtime, env, config, account, net, cb, ret, result, runs,
             ledgerSeq>>
clientVars == <<cop, cout>>
auxVars == <<lastCredits, other>>
vars == <<addrIn, addrOut, pc, handler, details, runtime, env, config, account,
          net, cb, ret, result, runs, ledgerSeq, cop, cout, lastCredits, other>>

(***************************************************************************)
(* Characters and strings                                                  *)
(***************************************************************************)
UpperLetters == {"A", "B", "C", "D", "E", "F", "G", "H", "I", "J", "K", "L", "M",
                 "N", "O", "P", "Q", "R", "S", "T", "U", "V", "W", "X", "Y", "Z"}

Digits == {"0", "1", "2", "3", "4", "5", "6", "7", "8", "9"}

\* The alphabet of an account identifier: RFC 4648 base32, A-Z and 2-7.
Base32Alphabet == UpperLetters \cup {"2", "3", "4", "5", "6", "7"}

\* The character class [A-Z0-9] of the regular expression in isValidStellarAddress.
RegexClass == UpperLetters \cup Digits

AddressLength == 56

\* A string of length n that starts with first, carries odd at position pos
\* and the letter A everywhere else.
MkString(n, first, pos, odd) ==
    [i \in 1..n |-> IF i = 1 THEN first ELSE IF i = pos THEN odd ELSE "A"]

JsString(s) == [t |-> "string", chars |-> s]
JsUndefined == [t |-> "undefined", chars |-> <<>>]
JsNumber == [t |-> "number", chars |-> <<>>]

(***************************************************************************)
(* isValidStellarAddress                                                   *)
(***************************************************************************)
\* /^[A-Z0-9]+$/.test(s)
RegexTest(s) == Len(s) >= 1 /\ \A i \in 1..Len(s) : s[i] \in RegexClass

StartsWithG(s) == Len(s) >= 1 /\ s[1] = "G"

isValidStellarAddress(address) ==
    /\ address.t = "string"
    /\ Len(address.chars) = AddressLength
    /\ StartsWithG(address.chars)
    /\ RegexTest(address.chars)

(***************************************************************************)
(* Values of the intent (StellarTransactionDetails)                        *)
(***************************************************************************)
NoAddr == <<>>

\* A real account identifier (valid base32 and checksum).
GoodAddr == MkString(AddressLength, "G", 2, "B")

\* A second real account identifier.
IssuerAddr == MkString(AddressLength, "G", 3, "C")

\* Too short, as in the example message "Send 100 XLM from GBXYZ123...".
ShortAddr == <<"G", "B", "X", "Y", "Z">>

\* 56 characters, starts with G, but carries a digit outside base32:
\* no account identifier looks like this.
DigitAddr == MkString(AddressLength, "G", 2, "0")

Addrs == {NoAddr, GoodAddr, ShortAddr, DigitAddr}

\* StrKey.isValidEd25519PublicKey of the ledger SDK: base32 decoding,
\* version byte and checksum; only real identifiers pass.
RealKeys == {GoodAddr, IssuerAddr}

SdkValidKey(s) == s \in RealKeys

Truthy(s) == Len(s) > 0

NoAmount == <<>>
Amounts == {NoAmount, <<"1", "0", "0">>, <<"0">>, <<"-", "5">>, <<"a", "b", "c">>}

IsDigits(s) == Len(s) >= 1 /\ \A i \in 1..Len(s) : s[i] \in Digits

\* isValidAmount of the ledger SDK on the amounts used here (no decimal
\* point occurs): a decimal number, and positive unless allowZero.
SdkValidAmount(s, allowZero) ==
    /\ IsDigits(s)
    /\ (allowZero \/ \E i \in 1..Len(s) : s[i] # "0")

NoAsset == [code |-> "", issuer |-> NoAddr]
Assets == {NoAsset,
           [code |-> "XLM", issuer |-> NoAddr],
           [code |-> "XLM", issuer |-> ShortAddr],
           [code |-> "USDC", issuer |-> IssuerAddr],
           [code |-> "USDC", issuer |-> ShortAddr],
           [code |-> "USDC", issuer |-> NoAddr]}

MemoTypes == {"", "text", "id", "hash", "return", "other"}
Memos == {<<>>, <<"h", "i">>, <<"4", "2">>}

NoIntent ==
    [type |-> "", sourceAccount |-> NoAddr, destinationAccount |-> NoAddr,
     amount |-> NoAmount, asset |-> NoAsset, memo |-> <<>>, memoType |-> "",
     xdr |-> "", sendAsset |-> NoAsset, sendMax |-> NoAmount,
     destAsset |-> NoAsset, destAmount |-> NoAmount, path |-> <<>>,
     trustAsset |-> NoAsset, trustLimit |-> NoAmount, startingBalance |-> NoAmount]

\* A well-formed intent of each kind; the intents of the model vary one or
\* two fields of these at a time, for every source account.
GoodPayment ==
    [NoIntent EXCEPT !.type = "payment", !.sourceAccount = GoodAddr,
        !.destinationAccount = IssuerAddr, !.amount = <<"1", "0", "0">>]

GoodCreateAccount ==
    [NoIntent EXCEPT !.type = "createAccount", !.sourceAccount = GoodAddr,
        !.destinationAccount = IssuerAddr, !.startingBalance = <<"5">>]

GoodChangeTrust ==
    [NoIntent EXCEPT !.type = "changeTrust", !.sourceAccount = GoodAddr,
        !.trustAsset = [code |-> "USDC", issuer |-> IssuerAddr]]

GoodPathPayment ==
    [NoIntent EXCEPT !.type = "pathPayment", !.sourceAccount = GoodAddr,
        !.destinationAccount = IssuerAddr, !.sendMax = <<"1", "0", "0">>,
        !.destAmount = <<"5">>,
        !.destAsset = [code |-> "USDC", issuer |-> IssuerAddr]]

GoodXdr == [NoIntent EXCEPT !.type = "xdr", !.xdr = "AAAAAgAAAAB"]

OtherTypes == {"manageData", "contract", ""}

Variants(base) ==
    {[base EXCEPT !.destinationAccount = a] : a \in Addrs}

PaymentVariants ==
    Variants(GoodPayment)
    \cup {[GoodPayment EXCEPT !.amount = a] : a \in Amounts}
    \cup {[GoodPayment EXCEPT !.asset = a] : a \in Assets}
    \cup {[GoodPayment EXCEPT !.memo = m, !.memoType = t] : m \in Memos, t \in MemoTypes}
    \cup {[GoodPayment EXCEPT !.amount = <<"0">>, !.asset = a] : a \in Assets}

CreateAccountVariants ==
    Variants(GoodCreateAccount)
    \cup {[GoodCreateAccount EXCEPT !.startingBalance = a] :
            a \in {NoAmount, <<"5">>, <<"a", "b", "c">>}}

ChangeTrustVariants ==
    Variants(GoodChangeTrust)
    \cup {[GoodChangeTrust EXCEPT !.trustAsset = a] : a \in Assets}
    \cup {[GoodChangeTrust EXCEPT !.trustLimit = a] : a \in {<<"1", "0", "0">>, <<"a", "b", "c">>}}

PathPaymentVariants ==
    Variants(GoodPathPayment)
    \cup {[GoodPathPayment EXCEPT !.sendAsset = a] : a \in Assets}
    \cup {[GoodPathPayment EXCEPT !.destAsset = a] : a \in Assets}
    \cup {[GoodPathPayment EXCEPT !.sendMax = a] : a \in Amounts}
    \cup {[GoodPathPayment EXCEPT !.destAmount = a] : a \in Amounts}
    \cup {[GoodPathPayment EXCEPT !.path = <<a>>] : a \in Assets}
    \cup {[GoodPathPayment EXCEPT !.path = <<[code |-> "USDC", issuer |-> IssuerAddr], a>>] :
            a \in Assets}

XdrVariants ==
    Variants(GoodXdr)
    \cup {[GoodXdr EXCEPT !.xdr = ""]}

OtherVariants ==
    {[GoodPayment EXCEPT !.type = t] : t \in OtherTypes}

Intents ==
    {[d EXCEPT !.sourceAccount = s] :
        d \in PaymentVariants \cup CreateAccountVariants \cup ChangeTrustVariants
              \cup PathPaymentVariants \cup XdrVariants \cup OtherVariants,
        s \in Addrs}

(***************************************************************************)
(* Configuration: runtime settings, process.env, validateLaunchtubeConfig  *)
(***************************************************************************)
DefaultBaseUrl == "https://testnet.launchtube.xyz"

ValidUrls == {DefaultBaseUrl, "https://launchtube.xyz"}

NoSettings == [LAUNCHTUBE_API_KEY |-> "", LAUNCHTUBE_BASE_URL |-> "", STELLAR_NETWORK |-> ""]

Runtimes ==
    {NoSettings,
     [LAUNCHTUBE_API_KEY |-> "token-A", LAUNCHTUBE_BASE_URL |-> DefaultBaseUrl,
      STELLAR_NETWORK |-> "testnet"],
     [LAUNCHTUBE_API_KEY |-> "token-B", LAUNCHTUBE_BASE_URL |-> "https://launchtube.xyz",
      STELLAR_NETWORK |-> "mainnet"],
     [LAUNCHTUBE_API_KEY |-> "token-A", LAUNCHTUBE_BASE_URL |-> "not a url",
      STELLAR_NETWORK |-> ""]}

Envs ==
    {NoSettings,
     [LAUNCHTUBE_API_KEY |-> "token-E", LAUNCHTUBE_BASE_URL |-> "",
      STELLAR_NETWORK |-> "mainnet"]}

\* a || b on strings: a unless it is falsy (undefined or empty).
Or(a, b) == IF a # "" THEN a ELSE b

NoConfig == [set |-> FALSE, LAUNCHTUBE_API_KEY |-> "", LAUNCHTUBE_BASE_URL |-> "",
             STELLAR_NETWORK |-> ""]

Ok(v) == [ok |-> TRUE, err |-> <<>>, val |-> v]
Throw(msg) == [ok |-> FALSE, err |-> msg, val |-> [none |-> TRUE]]

validateLaunchtubeConfig(rt, e) ==
    LET key == Or(rt.LAUNCHTUBE_API_KEY, e.LAUNCHTUBE_API_KEY)
        url == Or(Or(rt.LAUNCHTUBE_BASE_URL, e.LAUNCHTUBE_BASE_URL), DefaultBaseUrl)
        network == Or(Or(rt.STELLAR_NETWORK, e.STELLAR_NETWORK), "testnet")
    IN  IF key = "" \/ url \notin ValidUrls \/ network \notin {"testnet", "mainnet"}
        THEN Throw(<<"Launchtube plugin configuration validation failed:">>
                   \o (IF key = "" THEN <<"LAUNCHTUBE_API_KEY: Required">> ELSE <<>>)
                   \o (IF url \notin ValidUrls THEN <<"LAUNCHTUBE_BASE_URL: Invalid url">> ELSE <<>>)
                   \o (IF network \notin {"testnet", "mainnet"}
                       THEN <<"STELLAR_NETWORK: Invalid enum value">> ELSE <<>>))
        ELSE Ok([set |-> TRUE, LAUNCHTUBE_API_KEY |-> key, LAUNCHTUBE_BASE_URL |-> url,
                 STELLAR_NETWORK |-> network])

(***************************************************************************)
(* The ledger SDK as buildTransactionXDR uses it                           *)
(***************************************************************************)
NativeAsset == [native |-> TRUE, code |-> "XLM", issuer |-> NoAddr]

\* NewAsset without the checks of the issuer.
NewAssetAnyIssuer(code, issuer) ==
    IF code = "" THEN Throw(<<"Asset code is invalid (maximum alphanumeric, 12 characters at max)">>)
    ELSE Ok([native |-> ~Truthy(issuer), code |-> code, issuer |-> issuer])

\* new Asset(code, issuer): the code is 1 to 12 alphanumerics, a code other
\* than XLM needs an issuer, and an issuer that is given must be a valid key.
NewAsset(code, issuer) ==
    IF code = "" THEN Throw(<<"Asset code is invalid (maximum alphanumeric, 12 characters at max)">>)
    ELSE IF code \notin {"XLM", "xlm"} /\ ~Truthy(issuer) THEN Throw(<<"Issuer cannot be null">>)
    ELSE IF Truthy(issuer) /\ ~SdkValidKey(issuer) THEN Throw(<<"Issuer is invalid">>)
    ELSE Ok([native |-> ~Truthy(issuer), code |-> code, issuer |-> issuer])

\* details.asset?.code === "XLM" || !details.asset?.code ? Asset.native() : new Asset(code, issuer!)
ResolveAsset(a) ==
    IF a.code = "XLM" \/ a.code = "" THEN Ok(NativeAsset) ELSE NewAsset(a.code, a.issuer)

\* p.code === "XLM" ? Asset.native() : new Asset(p.code!, p.issuer!)
ResolvePathElement(p) ==
    IF p.code = "XLM" THEN Ok(NativeAsset) ELSE NewAsset(p.code, p.issuer)

\* details.path?.map(...) || []: the first element that throws ends the map.
ResolvePath(path) ==
    LET r == [i \in 1..Len(path) |-> ResolvePathElement(path[i])]
        bad == {i \in 1..Len(path) : ~r[i].ok}
    IN  IF bad # {}
        THEN r[CHOOSE i \in bad : \A j \in bad : i <= j]
        ELSE Ok([i \in 1..Len(path) |-> r[i].val])

AmountError(name) ==
    <<name, " argument must be of type String, represent a positive number and have at most 7 digits after the decimal">>

\* Operation.payment: asset, then amount, then destination are checked.
OperationPayment(destination, asset, amount) ==
    IF ~SdkValidAmount(amount, FALSE) THEN Throw(AmountError("amount"))
    ELSE IF ~SdkValidKey(destination) THEN Throw(<<"destination is invalid">>)
    ELSE Ok([type |-> "payment", destination |-> destination, asset |-> asset,
             amount |-> amount])

OperationCreateAccount(destination, startingBalance) ==
    IF ~SdkValidKey(destination) THEN Throw(<<"destination is invalid">>)
    ELSE IF ~SdkValidAmount(startingBalance, TRUE) THEN Throw(AmountError("startingBalance"))
    ELSE Ok([type |-> "createAccount", destination |-> destination,
             startingBalance |-> startingBalance])

\* limit: details.trustLimit, undefined (the maximum) when absent.
OperationChangeTrust(asset, limit) ==
    IF Truthy(limit) /\ ~SdkValidAmount(limit, TRUE) THEN Throw(AmountError("limit"))
    ELSE Ok([type |-> "changeTrust", asset |-> asset, limit |-> limit])

OperationPathPaymentStrictReceive(sendAsset, sendMax, destination, destAsset, destAmount, path) ==
    IF ~SdkValidAmount(sendMax, FALSE) THEN Throw(AmountError("sendMax"))
    ELSE IF ~SdkValidKey(destination) THEN Throw(<<"destination is invalid">>)
    ELSE IF ~SdkValidAmount(destAmount, FALSE) THEN Throw(AmountError("destAmount"))
    ELSE Ok([type |-> "pathPaymentStrictReceive", sendAsset |-> sendAsset,
             sendMax |-> sendMax, destination |-> destination,
             destAsset |-> destAsset, destAmount |-> destAmount, path |-> path])

HexDigits == Digits \cup {"a", "b", "c", "d", "e", "f", "A", "B", "C", "D", "E", "F"}

NoMemo == [type |-> "none", value |-> <<>>]

\* Memo.text / Memo.id / Memo.hash / Memo.return of the ledger SDK.
SdkMemo(type, value) ==
    CASE type = "text" ->
            IF Len(value) <= 28 THEN Ok([type |-> "text", value |-> value])
            ELSE Throw(<<"Expects string, array or buffer, max 28 bytes">>)
      [] type = "id" ->
            IF IsDigits(value) THEN Ok([type |-> "id", value |-> value])
            ELSE Throw(<<"Expects a int64 as a string.">>)
      [] type \in {"hash", "return"} ->
            IF Len(value) = 64 /\ \A i \in 1..Len(value) : value[i] \in HexDigits
            THEN Ok([type |-> type, value |-> value])
            ELSE Throw(<<"Expects a 32 byte hash value or hex encoded string.">>)

(***************************************************************************)
(* buildTransactionXDR                                                     *)
(***************************************************************************)
\* Networks.PUBLIC / Networks.TESTNET, chosen from the runtime setting alone.
NetworkPassphrase(rt) ==
    IF rt.STELLAR_NETWORK = "mainnet" THEN "Public Global Stellar Network ; September 2015"
    ELSE "Test SDF Network ; September 2015"

ServerUrl(rt) ==
    IF rt.STELLAR_NETWORK = "mainnet" THEN "https://horizon.stellar.org"
    ELSE "https://horizon-testnet.stellar.org"

\* The switch over details.type: exactly one operation or an error.
BuildOperation(d) ==
    CASE d.type = "payment" ->
            IF ~Truthy(d.destinationAccount) \/ ~Truthy(d.amount)
            THEN Throw(<<"Payment requires destinationAccount and amount">>)
            ELSE LET asset == ResolveAsset(d.asset)
                 IN  IF ~asset.ok THEN asset
                     ELSE OperationPayment(d.destinationAccount, asset.val, d.amount)
      [] d.type = "createAccount" ->
            IF ~Truthy(d.destinationAccount) \/ ~Truthy(d.startingBalance)
            THEN Throw(<<"Create account requires destinationAccount and startingBalance">>)
            ELSE OperationCreateAccount(d.destinationAccount, d.startingBalance)
      [] d.type = "changeTrust" ->
            IF d.trustAsset.code = "" \/ ~Truthy(d.trustAsset.issuer)
            THEN Throw(<<"Change trust requires trustAsset with code and issuer">>)
            ELSE LET trustAsset == NewAsset(d.trustAsset.code, d.trustAsset.issuer)
                 IN  IF ~trustAsset.ok THEN trustAsset
                     ELSE OperationChangeTrust(trustAsset.val, d.trustLimit)
      [] d.type = "pathPayment" ->
            IF ~Truthy(d.destinationAccount) \/ ~Truthy(d.sendMax) \/ ~Truthy(d.destAmount)
            THEN Throw(<<"Path payment requires destinationAccount, sendMax, and destAmount">>)
            ELSE LET sendAsset == ResolveAsset(d.sendAsset)
                     destAsset == ResolveAsset(d.destAsset)
                     path == ResolvePath(d.path)
                 IN  IF ~sendAsset.ok THEN sendAsset
                     ELSE IF ~destAsset.ok THEN destAsset
                     ELSE IF ~path.ok THEN path
                     ELSE OperationPathPaymentStrictReceive(sendAsset.val, d.sendMax,
                              d.destinationAccount, destAsset.val, d.destAmount, path.val)
      [] OTHER -> Throw(<<"Unsupported transaction type: ", d.type>>)

\* if (details.memo) { switch (details.memoType || "text") ... }: a memo type
\* outside the four cases adds no memo.
AddMemo(d) ==
    IF ~Truthy(d.memo) THEN Ok(NoMemo)
    ELSE LET memoType == Or(d.memoType, "text")
         IN  IF memoType \in {"text", "id", "hash", "return"}
             THEN SdkMemo(memoType, d.memo)
             ELSE Ok(NoMemo)

BASE_FEE == "100"

NoTx == [none |-> TRUE]

\* transaction.toXDR(): the base64 envelope of a built transaction.
ToXDR(tx) == [raw |-> "", tx |-> tx]

\* A base64 envelope supplied as text.
RawXDR(s) == [raw |-> s, tx |-> NoTx]

XdrTruthy(x) == x.raw # "" \/ x.tx # NoTx

\* buildTransactionXDR before its first await: the source-account check.
BuildBeforeLoad(d) ==
    IF ~Truthy(d.sourceAccount)
    THEN Throw(<<"Source account is required for transaction building">>)
    ELSE Ok([none |-> TRUE])

\* BuildAfterLoad with the sequence number of the first load kept for later builds.
BuildAfterLoadCached(rt, d, acc) ==
    LET op == BuildOperation(d)
        memo == AddMemo(d)
    IN  IF ~op.ok THEN op
        ELSE IF ~memo.ok THEN memo
        ELSE Ok(ToXDR([source |-> acc.id, sequence |-> 1 + 1,
                       fee |-> BASE_FEE, networkPassphrase |-> NetworkPassphrase(rt),
                       operations |-> <<op.val>>, memo |-> memo.val, timeout |-> 30]))

\* BuildAfterLoad without setTimeout: a transaction with no time bound.
BuildAfterLoadNoTimeout(rt, d, acc) ==
    LET op == BuildOperation(d)
        memo == AddMemo(d)
    IN  IF ~op.ok THEN op
        ELSE IF ~memo.ok THEN memo
        ELSE Ok(ToXDR([source |-> acc.id, sequence |-> acc.sequence + 1,
                       fee |-> BASE_FEE, networkPassphrase |-> NetworkPassphrase(rt),
                       operations |-> <<op.val>>, memo |-> memo.val, timeout |-> 0]))

\* buildTransactionXDR after server.loadAccount returned acc: the operation,
\* the memo, setTimeout(30).build() and toXDR().
BuildAfterLoad(rt, d, acc) ==
    LET op == BuildOperation(d)
        memo == AddMemo(d)
    IN  IF ~op.ok THEN op
        ELSE IF ~memo.ok THEN memo
        ELSE Ok(ToXDR([source |-> acc.id, sequence |-> acc.sequence + 1,
                       fee |-> BASE_FEE, networkPassphrase |-> NetworkPassphrase(rt),
                       operations |-> <<op.val>>, memo |-> memo.val, timeout |-> 30]))

(***************************************************************************)
(* Relay responses                                                         *)
(***************************************************************************)
\* A JavaScript value of the "credits" field of the /info body.
JsVal(t, chars, n) == [t |-> t, chars |-> chars, n |-> n]
CreditsUndefined == JsVal("undefined", <<>>, 0)

\* The parsed JSON body: kind is "invalid" (not JSON), "null", "object" or
\* "array"; an absent string field is "".
Json(kind, tx, hash, credits, tokens) ==
    [kind |-> kind, tx |-> tx, hash |-> hash, credits |-> credits, tokens |-> tokens]

NoJson == Json("invalid", "", "", CreditsUndefined, <<>>)

\* An HTTP response: status, the body text, the body as JSON, and the
\* X-Credits-Remaining header ("" when the header is absent).
Response(status, text, json, header) ==
    [kind |-> "response", status |-> status, text |-> text, json |-> json,
     header |-> header]

\* fetch rejected: no response at all.
NetError == [kind |-> "neterror", status |-> 0, text |-> "", json |-> NoJson, header |-> ""]

ResponseOk(resp) == resp.status >= 200 /\ resp.status <= 299

StatusText(n) ==
    CASE n = 200 -> "200" [] n = 204 -> "204" [] n = 400 -> "400" [] n = 401 -> "401"
      [] n = 402 -> "402" [] n = 500 -> "500" [] OTHER -> "0"

ErrorResponses ==
    {Response(400, "Transaction simulation failed", NoJson, ""),
     Response(401, "Unauthorized", NoJson, ""),
     Response(402, "No credits left", NoJson, "0"),
     Response(500, "{\"error\":\"tx_bad_seq\"}",
              Json("object", "", "", CreditsUndefined, <<>>), "")}

SubmitResponses ==
    {Response(200, "{\"tx\":\"abc123\"}",
              Json("object", "abc123", "", CreditsUndefined, <<>>), "899800"),
     Response(200, "{\"hash\":\"def456\"}",
              Json("object", "", "def456", CreditsUndefined, <<>>), "0"),
     Response(200, "{\"tx\":\"abc123\",\"hash\":\"def456\"}",
              Json("object", "abc123", "def456", CreditsUndefined, <<>>), ""),
     Response(200, "{}", Json("object", "", "", CreditsUndefined, <<>>), "899800"),
     Response(200, "null", Json("null", "", "", CreditsUndefined, <<>>), "899800"),
     Response(200, "<html>", NoJson, "899800")}
    \cup ErrorResponses \cup {NetError}

(***************************************************************************)
(* LaunchtubeService                                                       *)
(***************************************************************************)
\* MakeRequest without the test of this.config.
MakeRequestNoGuard(cfg, endpoint, method, body) ==
    Ok([kind |-> "relay", base |-> cfg.LAUNCHTUBE_BASE_URL, endpoint |-> endpoint,
        method |-> method, bearer |-> cfg.LAUNCHTUBE_API_KEY, body |-> body])

\* makeRequest up to the call of fetch: the request it issues, or the error
\* of a service without config.
MakeRequest(cfg, endpoint, method, body) ==
    IF ~cfg.set THEN Throw(<<"LaunchtubeService not initialized">>)
    ELSE Ok([kind |-> "relay", base |-> cfg.LAUNCHTUBE_BASE_URL, endpoint |-> endpoint,
             method |-> method, bearer |-> cfg.LAUNCHTUBE_API_KEY, body |-> body])

\* makeRequest after fetch settled: the response, or the error thrown for a
\* rejected fetch or a non-2xx status.
MakeRequestReturn(resp) ==
    IF resp.kind = "neterror" THEN Throw(<<"fetch failed">>)
    ELSE IF ~ResponseOk(resp)
    THEN Throw(<<"Launchtube API error (", StatusText(resp.status), "): ", resp.text>>)
    ELSE Ok(resp)

\* A LaunchtubeSubmissionRequest; sim is "true", "false" or "" (undefined).
SubmissionRequest(xdr, func, hasAuth, auth, sim) ==
    [xdr |-> xdr, func |-> func, hasAuth |-> hasAuth, auth |-> auth, sim |-> sim]

NoXdr == RawXDR("")

\* The URLSearchParams body of submitTransaction: what was appended.
SubmitBody(request) ==
    [xdr |-> IF XdrTruthy(request.xdr) THEN request.xdr ELSE NoXdr,
     func |-> request.func,
     auth |-> IF request.hasAuth THEN request.auth ELSE <<>>,
     sim |-> request.sim]

\* submitTransaction up to the call of fetch.
SubmitRequest(cfg, request) == MakeRequest(cfg, "/", "POST", SubmitBody(request))

NoDetails == [tx |-> "", hash |-> "", creditsRemaining |-> ""]

SubmitError(msg) == [status |-> "error", tx |-> "", error |-> msg, details |-> NoDetails]

\* SubmitReturn reading the hash before the tx field and the balance from the body.
SubmitReturnHashFirst(made) ==
    IF ~made.ok THEN SubmitError(made.err)
    ELSE LET resp == made.val
         IN  IF resp.json.kind = "invalid"
             THEN SubmitError(<<"Unexpected token in JSON">>)
             ELSE IF resp.json.kind = "null"
             THEN SubmitError(<<"Cannot read properties of null (reading 'tx')">>)
             ELSE [status |-> "success",
                   tx |-> Or(resp.json.hash, resp.json.tx),
                   error |-> <<>>,
                   details |-> [tx |-> resp.json.tx, hash |-> resp.json.hash,
                                creditsRemaining |-> resp.header]]

\* submitTransaction after fetch settled: every error is caught and returned.
SubmitReturn(made) ==
    IF ~made.ok THEN SubmitError(made.err)
    ELSE LET resp == made.val
         IN  IF resp.json.kind = "invalid"
             THEN SubmitError(<<"Unexpected token in JSON">>)
             ELSE IF resp.json.kind = "null"
             THEN SubmitError(<<"Cannot read properties of null (reading 'tx')">>)
             ELSE [status |-> "success",
                   tx |-> Or(resp.json.tx, resp.json.hash),
                   error |-> <<>>,
                   details |-> [tx |-> resp.json.tx, hash |-> resp.json.hash,
                                creditsRemaining |-> resp.header]]

(***************************************************************************)
(* checkCredits: the /info body, toString and parseInt                     *)
(***************************************************************************)
DigitChar(d) ==
    CASE d = 0 -> "0" [] d = 1 -> "1" [] d = 2 -> "2" [] d = 3 -> "3" [] d = 4 -> "4"
      [] d = 5 -> "5" [] d = 6 -> "6" [] d = 7 -> "7" [] d = 8 -> "8" [] d = 9 -> "9"

DigitValue(c) ==
    CASE c = "0" -> 0 [] c = "1" -> 1 [] c = "2" -> 2 [] c = "3" -> 3 [] c = "4" -> 4
      [] c = "5" -> 5 [] c = "6" -> 6 [] c = "7" -> 7 [] c = "8" -> 8 [] c = "9" -> 9

RECURSIVE NatToString(_)
\* Number.prototype.toString of a non-negative integer.
NatToString(n) ==
    IF n < 10 THEN <<DigitChar(n)>> ELSE NatToString(n \div 10) \o <<DigitChar(n % 10)>>

\* parsed.credits?.toString(): undefined for undefined and null.
CreditsToString(v) ==
    CASE v.t = "string" -> v.chars
      [] v.t = "number" -> NatToString(v.n)
      [] OTHER -> <<>>

\* x || "0" on strings.
OrZero(chars) == IF Truthy(chars) THEN chars ELSE <<"0">>

RECURSIVE SkipSpaces(_)
SkipSpaces(s) == IF Len(s) >= 1 /\ s[1] = " " THEN SkipSpaces(Tail(s)) ELSE s

RECURSIVE DigitPrefix(_)
DigitPrefix(s) ==
    IF Len(s) >= 1 /\ s[1] \in Digits THEN <<s[1]>> \o DigitPrefix(Tail(s)) ELSE <<>>

RECURSIVE DigitsValue(_)
DigitsValue(s) ==
    IF Len(s) = 0 THEN 0
    ELSE 10 * DigitsValue(SubSeq(s, 1, Len(s) - 1)) + DigitValue(s[Len(s)])

\* A JavaScript number: NaN, or the rational (-)num/den.
Number(neg, num, den) == [nan |-> FALSE, neg |-> neg /\ num # 0, num |-> num, den |-> den]
NaN == [nan |-> TRUE, neg |-> FALSE, num |-> 0, den |-> 1]

isNaN(x) == x.nan

\* parseInt(s, 10): leading blanks, an optional sign, then the longest run
\* of digits; NaN when that run is empty.
parseInt(s) ==
    LET t == SkipSpaces(s)
        neg == Len(t) >= 1 /\ t[1] = "-"
        u == IF Len(t) >= 1 /\ t[1] \in {"-", "+"} THEN Tail(t) ELSE t
        ds == DigitPrefix(u)
    IN  IF ds = <<>> THEN NaN ELSE Number(neg, DigitsValue(ds), 1)

StroopsPerXLM == 10000000

\* isNaN(credits) ? 0 : credits / 10000000
CreditsInXLM(credits) ==
    IF isNaN(credits) THEN Number(FALSE, 0, 1)
    ELSE Number(credits.neg, credits.num, StroopsPerXLM)

InfoBody(credits) == Json("object", "", "", credits, <<>>)

InfoResponses ==
    {Response(200, "{\"credits\":\"1000000\",\"activated\":true}", InfoBody(JsVal("string", <<"1", "0", "0", "0", "0", "0", "0">>, 0)), ""),
     Response(200, "{\"credits\":\"not-a-number\",\"activated\":true}",
              InfoBody(JsVal("string", <<"n", "o", "t", "-", "a", "-", "n", "u", "m", "b", "e", "r">>, 0)), ""),
     Response(200, "{\"credits\":\"12abc\",\"activated\":true}", InfoBody(JsVal("string", <<"1", "2", "a", "b", "c">>, 0)), ""),
     Response(200, "{\"credits\":\"0\",\"activated\":true}", InfoBody(JsVal("string", <<"0">>, 0)), ""),
     Response(200, "{\"credits\":\"\",\"activated\":false}", InfoBody(JsVal("string", <<>>, 0)), ""),
     Response(200, "{\"credits\":899800,\"activated\":true}", InfoBody(JsVal("number", <<>>, 899800)), ""),
     Response(200, "{\"credits\":0,\"activated\":true}", InfoBody(JsVal("number", <<>>, 0)), ""),
     Response(200, "{}", InfoBody(CreditsUndefined), ""),
     Response(200, "{\"credits\":null}", InfoBody(JsVal("null", <<>>, 0)), ""),
     Response(200, "null", Json("null", "", "", CreditsUndefined, <<>>), ""),
     Response(200, "<html>", NoJson, "")}
    \cup ErrorResponses \cup {NetError}

\* checkCredits up to the call of fetch.
CheckCreditsRequest(cfg) == MakeRequest(cfg, "/info", "GET", [none |-> TRUE])

\* CheckCreditsReturn with a failed request reported as a balance of "0".
CheckCreditsReturnSwallows(made) ==
    IF ~made.ok THEN Ok([credits |-> <<"0">>])
    ELSE LET resp == made.val
         IN  IF resp.json.kind = "invalid" THEN Throw(<<"Unexpected token in JSON">>)
             ELSE IF resp.json.kind = "null"
             THEN Throw(<<"Cannot read properties of null (reading 'credits')">>)
             ELSE Ok([credits |-> OrZero(CreditsToString(resp.json.credits))])

\* checkCredits after fetch settled: { credits } or the error it rethrows.
CheckCreditsReturn(made) ==
    IF ~made.ok THEN made
    ELSE LET resp == made.val
         IN  IF resp.json.kind = "invalid" THEN Throw(<<"Unexpected token in JSON">>)
             ELSE IF resp.json.kind = "null"
             THEN Throw(<<"Cannot read properties of null (reading 'credits')">>)
             ELSE Ok([credits |-> OrZero(CreditsToString(resp.json.credits))])

(***************************************************************************)
(* activateToken, claimToken, generateTokens                               *)
(***************************************************************************)
ActivateRequest(cfg, token) == MakeRequest(cfg, "/activate", "POST", [token |-> token])

\* activateToken after fetch settled: nothing is read from a 2xx response.
ActivateReturn(made) == IF ~made.ok THEN made ELSE Ok([none |-> TRUE])

ClaimRequest(cfg, code) == MakeRequest(cfg, "/claim", "POST", [code |-> code])

\* The classes of /token["\s]*[:=]["\s]*([^"'\s]+)/i
QuoteOrSpace == {"\"", " ", "\n", "\t"}
ColonOrEquals == {":", "="}
NotCaptured == QuoteOrSpace \cup {"'"}

IsTokenWordAt(h, p) ==
    /\ p + 4 <= Len(h)
    /\ h[p] \in {"t", "T"} /\ h[p + 1] \in {"o", "O"} /\ h[p + 2] \in {"k", "K"}
    /\ h[p + 3] \in {"e", "E"} /\ h[p + 4] \in {"n", "N"}

RECURSIVE SkipClass(_, _, _)
\* The first position at or after p whose character is outside class.
SkipClass(h, p, class) ==
    IF p <= Len(h) /\ h[p] \in class THEN SkipClass(h, p + 1, class) ELSE p

RECURSIVE CaptureEnd(_, _)
\* The first position at or after p whose character ends the capture.
CaptureEnd(h, p) ==
    IF p <= Len(h) /\ h[p] \notin NotCaptured THEN CaptureEnd(h, p + 1) ELSE p

\* The capture of a match that starts at p, or <<>> when none starts there.
TokenMatchAt(h, p) ==
    IF ~IsTokenWordAt(h, p) THEN <<>>
    ELSE LET q == SkipClass(h, p + 5, QuoteOrSpace)
         IN  IF q > Len(h) \/ h[q] \notin ColonOrEquals THEN <<>>
             ELSE LET r == SkipClass(h, q + 1, QuoteOrSpace)
                      e == CaptureEnd(h, r)
                  IN  SubSeq(h, r, e - 1)

\* html.match(...): the capture of the leftmost match, <<>> for null.
TokenMatch(h) ==
    LET starts == {p \in 1..Len(h) : TokenMatchAt(h, p) # <<>>}
    IN  IF starts = {} THEN <<>>
        ELSE TokenMatchAt(h, CHOOSE p \in starts : \A q \in starts : p <= q)

\* The response to /claim: html is the body text as characters.
ClaimResponse(status, text, html) ==
    [kind |-> "response", status |-> status, text |-> text, json |-> NoJson,
     header |-> "", html |-> html]

\* ClaimReturn with an empty token in place of the error.
ClaimReturnDefault(made) ==
    IF ~made.ok THEN made
    ELSE Ok([token |-> TokenMatch(made.val.html)])

\* claimToken after fetch settled.
ClaimReturn(made) ==
    IF ~made.ok THEN made
    ELSE IF TokenMatch(made.val.html) = <<>>
    THEN Throw(<<"Could not extract token from claim response">>)
    ELSE Ok([token |-> TokenMatch(made.val.html)])

\* generateTokens up to the call of fetch: it dereferences this.config and
\* calls fetch itself, without makeRequest.
GenerateRequest(cfg, request) ==
    IF ~cfg.set
    THEN Throw(<<"Cannot read properties of undefined (reading 'LAUNCHTUBE_BASE_URL')">>)
    ELSE Ok([kind |-> "relay", base |-> cfg.LAUNCHTUBE_BASE_URL, endpoint |-> "/gen",
             method |-> "GET", bearer |-> cfg.LAUNCHTUBE_API_KEY, body |-> request])

\* generateTokens after fetch settled.
GenerateReturn(sent, resp) ==
    IF ~sent.ok THEN sent
    ELSE IF resp.kind = "neterror" THEN Throw(<<"fetch failed">>)
    ELSE IF ~ResponseOk(resp)
    THEN Throw(<<"Failed to generate tokens: ", StatusText(resp.status)>>)
    ELSE IF resp.json.kind = "invalid" THEN Throw(<<"Unexpected token in JSON">>)
    ELSE IF resp.json.kind = "null"
    THEN Throw(<<"Cannot read properties of null (reading 'length')">>)
    ELSE Ok([tokens |-> resp.json.tokens])

(***************************************************************************)
(* SUBMIT_STELLAR_TRANSACTION handler                                      *)
(***************************************************************************)
MaxRuns == 2
MaxSeq == 2

InvalidAddressMessage(which) ==
    <<"Invalid ", which, " account format. Must be a 56-character Stellar public key starting with G.">>

\* The two address checks at the head of the handler.
ValidateAddresses(d) ==
    IF Truthy(d.sourceAccount) /\ ~isValidStellarAddress(JsString(d.sourceAccount))
    THEN Throw(InvalidAddressMessage("source"))
    ELSE IF Truthy(d.destinationAccount)
            /\ ~isValidStellarAddress(JsString(d.destinationAccount))
    THEN Throw(InvalidAddressMessage("destination"))
    ELSE Ok([none |-> TRUE])

\* LaunchtubeService.initialize(runtime) with a runtime.
Initialize(rt, e) == validateLaunchtubeConfig(rt, e)

\* IsDirectXdr without the test of the payload.
IsDirectXdrByTypeOnly(d) == d.type = "xdr"

\* type === "xdr" && xdr: the payload is submitted as it is.
IsDirectXdr(d) == d.type = "xdr" /\ d.xdr # ""

\* server.loadAccount(details.sourceAccount)
LoadAccountRequest(rt, d) ==
    [kind |-> "horizon", base |-> ServerUrl(rt), endpoint |-> "/accounts",
     method |-> "GET", bearer |-> "", body |-> [account |-> d.sourceAccount]]

\* The request object the handler hands to submitTransaction.
HandlerSubmission(xdr) == SubmissionRequest(xdr, "", FALSE, <<>>, "true")

NoResult == [status |-> "none", tx |-> "", error |-> <<>>, details |-> NoDetails]

NoAccount == [state |-> "none", id |-> NoAddr, sequence |-> 0]

SubmitAction == "SUBMIT_STELLAR_TRANSACTION"

\* The content of the callback on success and on failure.
SuccessContent(r, d) ==
    [action |-> SubmitAction, success |-> TRUE, transactionHash |-> r.tx,
     creditsRemaining |-> r.details.creditsRemaining, error |-> <<>>,
     transactionType |-> d.type]

FailureContent(action, err) ==
    [action |-> action, success |-> FALSE, transactionHash |-> "",
     creditsRemaining |-> "", error |-> err, transactionType |-> ""]

\* A step of the handler ends in one of: "catch" (an error was thrown),
\* "load" (awaiting loadAccount), "relay" (awaiting the relay) or "report"
\* (submitTransaction returned without a request).
Caught(err) == [next |-> "catch", err |-> err, xdr |-> NoXdr]

\* SubmitStep that refuses when the last credit check showed no usable balance.
SubmitStepChecksBalance(cfg, xdr) ==
    IF lastCredits \in {"zero", "unparseable"}
    THEN [next |-> "report", err |-> <<"Insufficient credits">>, xdr |-> xdr]
    ELSE IF SubmitRequest(cfg, HandlerSubmission(xdr)).ok
    THEN [next |-> "relay", err |-> <<>>, xdr |-> xdr]
    ELSE [next |-> "report", err |-> SubmitRequest(cfg, HandlerSubmission(xdr)).err,
          xdr |-> xdr]

\* launchtubeService.submitTransaction({ xdr, sim: true }) up to fetch.
SubmitStep(cfg, xdr) ==
    IF SubmitRequest(cfg, HandlerSubmission(xdr)).ok
    THEN [next |-> "relay", err |-> <<>>, xdr |-> xdr]
    ELSE [next |-> "report", err |-> SubmitRequest(cfg, HandlerSubmission(xdr)).err,
          xdr |-> xdr]

\* AfterExtraction without the branch for a supplied envelope.
AfterExtractionAlwaysCompiles(d, rt, e) ==
    IF ~ValidateAddresses(d).ok THEN Caught(ValidateAddresses(d).err)
    ELSE IF ~Initialize(rt, e).ok THEN Caught(Initialize(rt, e).err)
    ELSE IF ~BuildBeforeLoad(d).ok THEN Caught(BuildBeforeLoad(d).err)
    ELSE [next |-> "load", err |-> <<>>, xdr |-> NoXdr]

\* From the extracted details to the first network await.
AfterExtraction(d, rt, e) ==
    IF ~ValidateAddresses(d).ok THEN Caught(ValidateAddresses(d).err)
    ELSE IF ~Initialize(rt, e).ok THEN Caught(Initialize(rt, e).err)
    ELSE IF IsDirectXdr(d) THEN SubmitStep(Initialize(rt, e).val, RawXDR(d.xdr))
    ELSE IF ~BuildBeforeLoad(d).ok THEN Caught(BuildBeforeLoad(d).err)
    ELSE [next |-> "load", err |-> <<>>, xdr |-> NoXdr]

\* AfterLoad with the builder's error swallowed: whatever was built is submitted.
AfterLoadSubmitsAnyway(cfg, rt, d, acc) ==
    IF acc.state = "failed" THEN Caught(<<"Request failed: account could not be loaded">>)
    ELSE SubmitStep(cfg, IF BuildAfterLoad(rt, d, acc).ok
                         THEN BuildAfterLoad(rt, d, acc).val ELSE RawXDR("undefined"))

\* From the settled loadAccount to the next network await.
AfterLoad(cfg, rt, d, acc) ==
    IF acc.state = "failed" THEN Caught(<<"Request failed: account could not be loaded">>)
    ELSE IF ~BuildAfterLoad(rt, d, acc).ok THEN Caught(BuildAfterLoad(rt, d, acc).err)
    ELSE SubmitStep(cfg, BuildAfterLoad(rt, d, acc).val)

SubmitRunning == handler = "submit"

\* The handler is invoked and awaits generateObject.
StartSubmit(rt, e) ==
    /\ pc = "idle" /\ runs < MaxRuns
    /\ pc' = "extract" /\ handler' = "submit"
    /\ runtime' = rt /\ env' = e /\ runs' = runs + 1
    /\ UNCHANGED <<details, config, account, net, cb, ret, result, ledgerSeq>>
    /\ UNCHANGED addrVars /\ UNCHANGED auxVars /\ UNCHANGED clientVars

\* Leaving a step: towards the catch block, an await, or the report.
Leave(step, cfg, d, acc) ==
    /\ config' = cfg
    /\ details' = d
    /\ account' = acc
    /\ CASE step.next = "catch" ->
              /\ pc' = "done" /\ ret' = "false"
              /\ cb' = Append(cb, FailureContent(SubmitAction, step.err))
              /\ UNCHANGED <<net, result>>
         [] step.next = "load" ->
              /\ pc' = "awaitLoad"
              /\ net' = Append(net, LoadAccountRequest(runtime, d))
              /\ UNCHANGED <<cb, ret, result>>
         [] step.next = "relay" ->
              /\ pc' = "awaitRelay"
              /\ net' = Append(net, SubmitRequest(cfg, HandlerSubmission(step.xdr)).val)
              /\ UNCHANGED <<cb, ret, result>>
         [] step.next = "report" ->
              /\ pc' = "done" /\ ret' = "false"
              /\ result' = SubmitError(step.err)
              /\ cb' = Append(cb, FailureContent(SubmitAction, step.err))
              /\ UNCHANGED net

\* generateObject resolves with the details; the handler validates the
\* addresses, creates and initializes its service and starts compiling.
Extracted(d) ==
    /\ pc = "extract" /\ SubmitRunning
    /\ Leave(AfterExtraction(d, runtime, env),
             IF ValidateAddresses(d).ok /\ Initialize(runtime, env).ok
             THEN Initialize(runtime, env).val ELSE NoConfig,
             d, NoAccount)
    /\ UNCHANGED <<handler, runtime, env, runs, ledgerSeq>>
    /\ UNCHANGED addrVars /\ UNCHANGED auxVars /\ UNCHANGED clientVars

\* server.loadAccount settles: the account with its current sequence number
\* (only an existing account), or a failure.
LoadSettled(found) ==
    /\ pc = "awaitLoad" /\ SubmitRunning
    /\ found => details.sourceAccount \in RealKeys
    /\ LET acc == IF found
                  THEN [state |-> "loaded", id |-> details.sourceAccount,
                        sequence |-> ledgerSeq]
                  ELSE [state |-> "failed", id |-> details.sourceAccount, sequence |-> 0]
       IN  Leave(AfterLoad(config, runtime, details, acc), config, details, acc)
    /\ UNCHANGED <<handler, runtime, env, runs, ledgerSeq>>
    /\ UNCHANGED addrVars /\ UNCHANGED auxVars /\ UNCHANGED clientVars

\* RelaySettled with a failed request sent a second time.
RelaySettledRetries(resp) ==
    /\ pc = "awaitRelay" /\ SubmitRunning
    /\ IF ~MakeRequestReturn(resp).ok /\ Len(net) < 4
       THEN /\ pc' = pc /\ net' = net \o <<resp, net[Len(net)]>>
            /\ UNCHANGED <<cb, ret, result>>
       ELSE /\ LET r == SubmitReturn(MakeRequestReturn(resp))
               IN  /\ result' = r
                   /\ IF r.status = "success"
                      THEN cb' = Append(cb, SuccessContent(r, details)) /\ ret' = "true"
                      ELSE cb' = Append(cb, FailureContent(SubmitAction, r.error))
                           /\ ret' = "false"
            /\ pc' = "done" /\ net' = Append(net, resp)
    /\ UNCHANGED <<handler, details, runtime, env, config, account, runs, ledgerSeq>>
    /\ UNCHANGED addrVars /\ UNCHANGED auxVars /\ UNCHANGED clientVars

\* The relay answers: submitTransaction returns and the handler reports.
RelaySettled(resp) ==
    /\ pc = "awaitRelay" /\ SubmitRunning
    /\ LET r == SubmitReturn(MakeRequestReturn(resp))
       IN  /\ result' = r
           /\ IF r.status = "success"
              THEN cb' = Append(cb, SuccessContent(r, details)) /\ ret' = "true"
              ELSE cb' = Append(cb, FailureContent(SubmitAction, r.error)) /\ ret' = "false"
    /\ pc' = "done" /\ net' = Append(net, resp)
    /\ UNCHANGED <<handler, details, runtime, env, config, account, runs, ledgerSeq>>
    /\ UNCHANGED addrVars /\ UNCHANGED auxVars /\ UNCHANGED clientVars

\* The run is over; the next one starts from a fresh handler invocation.
Finish ==
    /\ pc = "done"
    /\ pc' = "idle" /\ handler' = "none"
    /\ details' = NoIntent /\ runtime' = NoSettings /\ env' = NoSettings
    /\ config' = NoConfig /\ account' = NoAccount /\ net' = <<>> /\ cb' = <<>>
    /\ ret' = "none" /\ result' = NoResult
    /\ UNCHANGED <<runs, ledgerSeq>>
    /\ UNCHANGED addrVars /\ UNCHANGED auxVars /\ UNCHANGED clientVars

\* Another transaction of the source account is applied on the ledger.
LedgerAdvance ==
    /\ ledgerSeq < MaxSeq
    /\ ledgerSeq' = ledgerSeq + 1
    /\ UNCHANGED <<pc, handler, details, runtime, env, config, account, net, cb, ret,
                   result, runs>>
    /\ UNCHANGED addrVars /\ UNCHANGED auxVars /\ UNCHANGED clientVars

(***************************************************************************)
(* CHECK_LAUNCHTUBE_CREDITS handler                                        *)
(***************************************************************************)
CreditsAction == "CHECK_LAUNCHTUBE_CREDITS"

\* The content of the callback once checkCredits returned creditsString.
CreditsContent(creditsString) ==
    [action |-> CreditsAction,
     success |-> ~isNaN(parseInt(creditsString)),
     credits |-> parseInt(creditsString),
     creditsInXLM |-> CreditsInXLM(parseInt(creditsString)),
     creditsString |-> creditsString,
     parsingError |-> isNaN(parseInt(creditsString)),
     error |-> <<>>]

CreditsFailureContent(err) ==
    [action |-> CreditsAction, success |-> FALSE, credits |-> NaN, creditsInXLM |-> NaN,
     creditsString |-> <<>>, parsingError |-> FALSE, error |-> err]

\* What a credit check that returned creditsString showed: the balance of
\* the callback's content as zero, positive or unparseable.
CreditsClass(creditsString) ==
    IF isNaN(parseInt(creditsString)) THEN "unparseable"
    ELSE IF parseInt(creditsString).num = 0 THEN "zero"
    ELSE "positive"

\* The handler is invoked: it creates and initializes its service and calls
\* checkCredits, which awaits the /info request.
StartCredits(rt, e) ==
    /\ pc = "idle" /\ runs < MaxRuns
    /\ handler' = "credits" /\ runtime' = rt /\ env' = e /\ runs' = runs + 1
    /\ IF Initialize(rt, e).ok
       THEN /\ config' = Initialize(rt, e).val
            /\ pc' = "awaitInfo"
            /\ net' = Append(net, CheckCreditsRequest(Initialize(rt, e).val).val)
            /\ UNCHANGED <<cb, ret>>
       ELSE /\ config' = NoConfig
            /\ pc' = "done" /\ ret' = "false"
            /\ cb' = Append(cb, CreditsFailureContent(Initialize(rt, e).err))
            /\ UNCHANGED net
    /\ UNCHANGED <<details, account, result, ledgerSeq>>
    /\ UNCHANGED addrVars /\ UNCHANGED auxVars /\ UNCHANGED clientVars

\* The relay answers /info: checkCredits returns or throws, the handler reports.
InfoSettled(resp) ==
    /\ pc = "awaitInfo" /\ handler = "credits"
    /\ LET r == CheckCreditsReturn(MakeRequestReturn(resp))
       IN  IF r.ok
           THEN cb' = Append(cb, CreditsContent(r.val.credits)) /\ ret' = "true"
           ELSE cb' = Append(cb, CreditsFailureContent(r.err)) /\ ret' = "false"
    /\ lastCredits' = IF CheckCreditsReturn(MakeRequestReturn(resp)).ok
                       THEN CreditsClass(CheckCreditsReturn(MakeRequestReturn(resp)).val.credits)
                       ELSE lastCredits
    /\ pc' = "done" /\ net' = Append(net, resp)
    /\ UNCHANGED <<handler, details, runtime, env, config, account, result, runs,
                   ledgerSeq, other>>
    /\ UNCHANGED addrVars /\ UNCHANGED clientVars

(***************************************************************************)
(* Specification of the handlers                                           *)
(***************************************************************************)
InitAddrIdle == addrIn = JsUndefined /\ addrOut = "none"

NoOp == [name |-> "none", phase |-> "idle", cfg |-> NoConfig]
NoOutcome == [kind |-> "none"]

InitClientIdle == cop = NoOp /\ cout = NoOutcome

\* No second run.
NoOther == [state |-> "none", runtime |-> NoSettings, env |-> NoSettings, config |-> NoConfig,
            net |-> <<>>, during |-> "none"]

InitAux == lastCredits = "none" /\ other = NoOther

InitRun ==
    /\ pc = "idle" /\ handler = "none" /\ details = NoIntent
    /\ runtime = NoSettings /\ env = NoSettings /\ config = NoConfig
    /\ account = NoAccount /\ net = <<>> /\ cb = <<>> /\ ret = "none"
    /\ result = NoResult /\ runs = 0 /\ ledgerSeq = 1

Init == InitRun /\ InitAddrIdle /\ InitClientIdle /\ InitAux

Next ==
    \/ \E rt \in Runtimes, e \in Envs : StartSubmit(rt, e)
    \/ \E d \in Intents : Extracted(d)
    \/ \E found \in BOOLEAN : LoadSettled(found)
    \/ \E resp \in SubmitResponses : RelaySettled(resp)
    \/ \E rt \in Runtimes, e \in Envs : StartCredits(rt, e)
    \/ \E resp \in InfoResponses : InfoSettled(resp)
    \/ Finish
    \/ LedgerAdvance

Spec == Init /\ [][Next]_vars

\* The handlers where every await but the one on the relay settles: the
\* event loop resumes a handler whose promise settled, generateObject and
\* loadAccount settle, and nothing obliges the relay to answer.
SpecLive ==
    /\ Init /\ [][Next]_vars
    /\ WF_vars(\E d \in Intents : Extracted(d))
    /\ WF_vars(\E found \in BOOLEAN : LoadSettled(found))

(***************************************************************************)
(* Specification of the address validator                                  *)
(***************************************************************************)
AddrLengths == {0, 1, AddressLength - 1, AddressLength, AddressLength + 1}
FirstChars == {"G", "A", "g", "2"}
OddChars == {"A", "Z", "2", "7", "0", "1", "8", "9", "a", "=", " ", "\n"}

AddrInputs ==
    {JsUndefined, JsNumber}
    \cup {JsString(MkString(n, first, pos, odd)) :
            n \in AddrLengths, first \in FirstChars, pos \in {2, AddressLength}, odd \in OddChars}

InitAddr ==
    addrIn \in AddrInputs /\ addrOut = "none" /\ InitRun /\ InitClientIdle /\ InitAux

\* One call of isValidStellarAddress on the input.
ValidateAddress ==
    /\ addrOut = "none"
    /\ addrOut' = IF isValidStellarAddress(addrIn) THEN "true" ELSE "false"
    /\ UNCHANGED addrIn /\ UNCHANGED runVars /\ UNCHANGED clientVars /\ UNCHANGED auxVars

NextAddr == ValidateAddress

SpecAddr == InitAddr /\ [][NextAddr]_vars

(***************************************************************************)
(* Specification of the relay client                                       *)
(***************************************************************************)
\* The config of a service instance: none before a successful initialize.
ClientConfigs ==
    {NoConfig}
    \cup {validateLaunchtubeConfig(rt, e).val :
            rt \in {r \in Runtimes : validateLaunchtubeConfig(r, NoSettings).ok}, e \in Envs}

AuthEntries == {<<>>, <<"AAAAAQ">>, <<"AAAAAQ", "AAAAAg">>}

\* auth is undefined (hasAuth false) or an array, possibly empty.
SubmissionRequests ==
    {SubmissionRequest(x, f, FALSE, <<>>, sim) :
        x \in {NoXdr, RawXDR("AAAAAgAAAAB")}, f \in {"", "AAAAGAAAAA"},
        sim \in {"", "true", "false"}}
    \cup {SubmissionRequest(x, f, TRUE, a, sim) :
        x \in {NoXdr, RawXDR("AAAAAgAAAAB")}, f \in {"", "AAAAGAAAAA"},
        a \in AuthEntries, sim \in {"", "true", "false"}}

ActivateResponses == {Response(200, "", NoJson, ""), Response(204, "", NoJson, "")}
                     \cup ErrorResponses \cup {NetError}

ClaimResponses ==
    {ClaimResponse(200, "token=\"abc\"",
                   <<"t", "o", "k", "e", "n", "=", "\"", "a", "b", "c", "\"">>),
     ClaimResponse(200, "Token : xyz", <<"T", "o", "k", "e", "n", " ", ":", " ", "x", "y", "z">>),
     ClaimResponse(200, "<p>none</p>", <<"<", "p", ">", "n", "o", "n", "e", "<", "/", "p", ">">>),
     ClaimResponse(200, "token=\"\"", <<"t", "o", "k", "e", "n", "=", "\"", "\"">>),
     ClaimResponse(200, "tokens left", <<"t", "o", "k", "e", "n", "s", " ", "l", "e", "f", "t">>),
     ClaimResponse(400, "Invalid claim code", <<>>),
     ClaimResponse(500, "Internal error", <<>>),
     [NetError EXCEPT !.text = ""]}

GenerateRequests == {[ttl |-> 3600, credits |-> 1000000, count |-> n] : n \in {1, 2}}

GenerateResponses ==
    {Response(200, "[\"tokA\"]", Json("array", "", "", CreditsUndefined, <<"tokA">>), ""),
     Response(200, "[\"tokA\",\"tokB\"]",
              Json("array", "", "", CreditsUndefined, <<"tokA", "tokB">>), ""),
     Response(200, "<html>", NoJson, "")}
    \cup ErrorResponses \cup {NetError}

Returned(v) == [kind |-> "returned", value |-> v, err |-> <<>>]
Thrown(r) == [kind |-> "thrown", value |-> [none |-> TRUE], err |-> r.err]
Settle(r) == IF r.ok THEN Returned(r.val) ELSE Thrown(r)

Calling(name, cfg, arg) == [name |-> name, phase |-> "waiting", cfg |-> cfg, arg |-> arg]
Done == [cop EXCEPT !.phase = "done"]

ClientIdle == cop.phase = "idle"
ClientWaiting(name) == cop.phase = "waiting" /\ cop.name = name

\* An operation starts: it issues its request sent.val, or ends at once
\* with the outcome early when it could not issue one.
Call(name, cfg, arg, sent, early) ==
    /\ IF sent.ok
       THEN cop' = Calling(name, cfg, arg) /\ net' = Append(net, sent.val) /\ cout' = NoOutcome
       ELSE cop' = [Calling(name, cfg, arg) EXCEPT !.phase = "done"]
            /\ cout' = early /\ UNCHANGED net
    /\ UNCHANGED <<pc, handler, details, runtime, env, config, account, cb, ret, result,
                   runs, ledgerSeq>>
    /\ UNCHANGED addrVars /\ UNCHANGED auxVars

\* The request of the operation in progress settles with resp.
Settled(resp, outcome) ==
    /\ cop' = Done /\ cout' = outcome /\ net' = Append(net, resp)
    /\ UNCHANGED <<pc, handler, details, runtime, env, config, account, cb, ret, result,
                   runs, ledgerSeq>>
    /\ UNCHANGED addrVars /\ UNCHANGED auxVars

SubmitCall(cfg, request) ==
    /\ ClientIdle
    /\ Call("submitTransaction", cfg, request, SubmitRequest(cfg, request),
         Returned(SubmitReturn(SubmitRequest(cfg, request))))

SubmitSettled(resp) ==
    /\ ClientWaiting("submitTransaction")
    /\ Settled(resp, Returned(SubmitReturn(MakeRequestReturn(resp))))

CheckCreditsCall(cfg) ==
    /\ ClientIdle
    /\ Call("checkCredits", cfg, [none |-> TRUE], CheckCreditsRequest(cfg),
         Thrown(CheckCreditsRequest(cfg)))

CheckCreditsSettled(resp) ==
    /\ ClientWaiting("checkCredits")
    /\ Settled(resp, Settle(CheckCreditsReturn(MakeRequestReturn(resp))))

ActivateCall(cfg, token) ==
    /\ ClientIdle
    /\ Call("activateToken", cfg, [token |-> token], ActivateRequest(cfg, token),
         Thrown(ActivateRequest(cfg, token)))

ActivateSettled(resp) ==
    /\ ClientWaiting("activateToken")
    /\ Settled(resp, Settle(ActivateReturn(MakeRequestReturn(resp))))

ClaimCall(cfg, code) ==
    /\ ClientIdle
    /\ Call("claimToken", cfg, [code |-> code], ClaimRequest(cfg, code),
         Thrown(ClaimRequest(cfg, code)))

ClaimSettled(resp) ==
    /\ ClientWaiting("claimToken")
    /\ Settled(resp, Settle(ClaimReturn(MakeRequestReturn(resp))))

GenerateCall(cfg, request) ==
    /\ ClientIdle
    /\ Call("generateTokens", cfg, request, GenerateRequest(cfg, request),
         Thrown(GenerateRequest(cfg, request)))

GenerateSettled(resp) ==
    /\ ClientWaiting("generateTokens")
    /\ Settled(resp, Settle(GenerateReturn(GenerateRequest(cop.cfg, cop.arg), resp)))

\* The operation is over; the instance is ready for the next call.
ClientReset ==
    /\ cop.phase = "done"
    /\ cop' = NoOp /\ cout' = NoOutcome /\ net' = <<>>
    /\ UNCHANGED <<pc, handler, details, runtime, env, config, account, cb, ret, result,
                   runs, ledgerSeq>>
    /\ UNCHANGED addrVars /\ UNCHANGED auxVars

NextClient ==
    \/ \E cfg \in ClientConfigs, request \in SubmissionRequests : SubmitCall(cfg, request)
    \/ \E resp \in SubmitResponses : SubmitSettled(resp)
    \/ \E cfg \in ClientConfigs : CheckCreditsCall(cfg)
    \/ \E resp \in InfoResponses : CheckCreditsSettled(resp)
    \/ \E cfg \in ClientConfigs, token \in {"token-A", "token-N"} : ActivateCall(cfg, token)
    \/ \E resp \in ActivateResponses : ActivateSettled(resp)
    \/ \E cfg \in ClientConfigs, code \in {"CLAIM-1"} : ClaimCall(cfg, code)
    \/ \E resp \in ClaimResponses : ClaimSettled(resp)
    \/ \E cfg \in ClientConfigs, request \in GenerateRequests : GenerateCall(cfg, request)
    \/ \E resp \in GenerateResponses : GenerateSettled(resp)
    \/ ClientReset

SpecClient == Init /\ [][NextClient]_vars

(***************************************************************************)
(* Specification of the validate functions of the two actions              *)
(***************************************************************************)
\* Runtimes whose getSetting answers each of the three keys on its own or,
\* as the mock of the tests, every key with the same string.
ValidateRuntimes ==
    {[LAUNCHTUBE_API_KEY |-> k, LAUNCHTUBE_BASE_URL |-> u, STELLAR_NETWORK |-> n] :
        k \in {"", "token-A", "test-api-key"},
        u \in {"", DefaultBaseUrl, "not a url", "test-api-key"},
        n \in {"", "testnet", "mainnet", "test-api-key"}}

\* validate of the action (submitTransaction.validate, checkCredits.validate):
\* true when validateLaunchtubeConfig returns, false when it throws.
ActionValidate(action, rt, e) ==
    /\ pc = "idle"
    /\ pc' = "done" /\ handler' = action /\ runtime' = rt /\ env' = e
    /\ ret' = IF validateLaunchtubeConfig(rt, e).ok THEN "true" ELSE "false"
    /\ UNCHANGED <<details, config, account, net, cb, result, runs, ledgerSeq>>
    /\ UNCHANGED addrVars /\ UNCHANGED auxVars /\ UNCHANGED clientVars

NextValidate ==
    \/ \E rt \in ValidateRuntimes, e \in Envs : ActionValidate("validateSubmit", rt, e)
    \/ \E rt \in ValidateRuntimes, e \in Envs : ActionValidate("validateCredits", rt, e)
    \/ Finish

SpecValidate == Init /\ [][NextValidate]_vars

(***************************************************************************)
(* Two handler runs at a time: a second run of CHECK_LAUNCHTUBE_CREDITS,   *)
(* invoked with its own runtime while the first run awaits                 *)
(***************************************************************************)
\* OtherStart on one service shared by the runs (LaunchtubeService.getInstance()):
\* initialize overwrites the configuration the first run reads.
OtherStartOnSingleton(rt, e) ==
    /\ other.state = "none"
    /\ other' = IF Initialize(rt, e).ok
                THEN [state |-> "awaitInfo", runtime |-> rt, env |-> e,
                      config |-> Initialize(rt, e).val,
                      net |-> <<CheckCreditsRequest(Initialize(rt, e).val).val>>,
                      during |-> pc]
                ELSE [state |-> "done", runtime |-> rt, env |-> e, config |-> NoConfig,
                      net |-> <<>>, during |-> pc]
    /\ config' = IF Initialize(rt, e).ok THEN Initialize(rt, e).val ELSE config
    /\ UNCHANGED <<pc, handler, details, runtime, env, account, net, cb, ret, result,
                   runs, ledgerSeq, lastCredits>>
    /\ UNCHANGED addrVars /\ UNCHANGED clientVars

\* The second run is invoked: new LaunchtubeService(), initialize(runtime)
\* on that instance, and checkCredits up to its fetch. The first run was at
\* "during" when this happened.
OtherStart(rt, e) ==
    /\ other.state = "none"
    /\ other' = IF Initialize(rt, e).ok
                THEN [state |-> "awaitInfo", runtime |-> rt, env |-> e,
                      config |-> Initialize(rt, e).val,
                      net |-> <<CheckCreditsRequest(Initialize(rt, e).val).val>>,
                      during |-> pc]
                ELSE [state |-> "done", runtime |-> rt, env |-> e, config |-> NoConfig,
                      net |-> <<>>, during |-> pc]
    /\ UNCHANGED <<pc, handler, details, runtime, env, config, account, net, cb, ret,
                   result, runs, ledgerSeq, lastCredits>>
    /\ UNCHANGED addrVars /\ UNCHANGED clientVars

\* The relay answers the second run's /info request.
OtherSettled(resp) ==
    /\ other.state = "awaitInfo"
    /\ other' = [other EXCEPT !.state = "done", !.net = Append(@, resp)]
    /\ lastCredits' = IF CheckCreditsReturn(MakeRequestReturn(resp)).ok
                       THEN CreditsClass(CheckCreditsReturn(MakeRequestReturn(resp)).val.credits)
                       ELSE lastCredits
    /\ UNCHANGED <<pc, handler, details, runtime, env, config, account, net, cb, ret,
                   result, runs, ledgerSeq>>
    /\ UNCHANGED addrVars /\ UNCHANGED clientVars

\* The second run is over.
OtherFinish ==
    /\ other.state = "done"
    /\ other' = NoOther
    /\ UNCHANGED <<pc, handler, details, runtime, env, config, account, net, cb, ret,
                   result, runs, ledgerSeq, lastCredits>>
    /\ UNCHANGED addrVars /\ UNCHANGED clientVars

PairIntents == {[d EXCEPT !.sourceAccount = GoodAddr] : d \in {GoodPayment, GoodXdr}}

\* process.env is one object of the process: runs at the same time read the same one.
SameEnv(e, running, runningEnv) == running => e = runningEnv

NextPair ==
    \/ \E rt \in Runtimes, e \in Envs :
           SameEnv(e, other.state # "none", other.env) /\ StartSubmit(rt, e)
    \/ \E d \in PairIntents : Extracted(d)
    \/ \E found \in BOOLEAN : LoadSettled(found)
    \/ \E resp \in {r \in SubmitResponses : r.kind = "neterror" \/ r.json.tx = "abc123"} :
           RelaySettled(resp)
    \/ \E rt \in Runtimes, e \in Envs :
           SameEnv(e, other.state # "none", other.env) /\ StartCredits(rt, e)
    \/ \E resp \in {r \in InfoResponses : r.kind = "neterror" \/ r.status = 400} :
           InfoSettled(resp)
    \/ Finish
    \/ \E rt \in Runtimes, e \in Envs : SameEnv(e, pc # "idle", env) /\ OtherStart(rt, e)
    \/ \E resp \in {r \in InfoResponses : r.kind = "neterror" \/ r.status = 400} :
           OtherSettled(resp)
    \/ OtherFinish

SpecPair == Init /\ [][NextPair]_vars

(***************************************************************************)
(* Handler runs and direct calls of the relay client, one at a time: a     *)
(* handler run starts only while no client operation is in progress, and   *)
(* a client operation only between two handler runs.                       *)
(***************************************************************************)
HandlerIdle == pc = "idle"

NextAll ==
    \/ \E rt \in Runtimes, e \in Envs : ClientIdle /\ StartSubmit(rt, e)
    \/ \E d \in Intents : ClientIdle /\ Extracted(d)
    \/ \E found \in BOOLEAN : ClientIdle /\ LoadSettled(found)
    \/ \E resp \in SubmitResponses : ClientIdle /\ RelaySettled(resp)
    \/ \E rt \in Runtimes, e \in Envs : ClientIdle /\ StartCredits(rt, e)
    \/ \E resp \in InfoResponses : ClientIdle /\ InfoSettled(resp)
    \/ ClientIdle /\ Finish
    \/ ClientIdle /\ LedgerAdvance
    \/ \E cfg \in ClientConfigs, request \in SubmissionRequests :
          HandlerIdle /\ SubmitCall(cfg, request)
    \/ \E resp \in SubmitResponses : HandlerIdle /\ SubmitSettled(resp)
    \/ \E cfg \in ClientConfigs : HandlerIdle /\ CheckCreditsCall(cfg)
    \/ \E resp \in InfoResponses : HandlerIdle /\ CheckCreditsSettled(resp)
    \/ \E cfg \in ClientConfigs, token \in {"token-A", "token-N"} :
          HandlerIdle /\ ActivateCall(cfg, token)
    \/ \E resp \in ActivateResponses : HandlerIdle /\ ActivateSettled(resp)
    \/ \E cfg \in ClientConfigs, code \in {"CLAIM-1"} : HandlerIdle /\ ClaimCall(cfg, code)
    \/ \E resp \in ClaimResponses : HandlerIdle /\ ClaimSettled(resp)
    \/ \E cfg \in ClientConfigs, request \in GenerateRequests :
          HandlerIdle /\ GenerateCall(cfg, request)
    \/ \E resp \in GenerateResponses : HandlerIdle /\ GenerateSettled(resp)
    \/ HandlerIdle /\ ClientReset

SpecAll == Init /\ [][NextAll]_vars

(***************************************************************************)
(* Properties                                                              *)
(***************************************************************************)
RelayRequests(log) == {i \in 1..Len(log) : log[i].kind = "relay"}
LoadRequests(log) == {i \in 1..Len(log) : log[i].kind = "horizon"}

\* The details of the current run are known.
Extracted_ == SubmitRunning /\ pc \in {"awaitLoad", "awaitRelay", "done"}

InvalidAddress(a) == Truthy(a) /\ ~isValidStellarAddress(JsString(a))

AddressValidationFails(d) ==
    InvalidAddress(d.sourceAccount) \/ InvalidAddress(d.destinationAccount)

\* buildTransactionXDR is called for d and raises: no source account, the
\* account load fails, or the operation or the memo cannot be built.
BuildRaises(d, acc) ==
    /\ ~IsDirectXdr(d)
    /\ \/ ~Truthy(d.sourceAccount)
       \/ acc.state = "failed"
       \/ acc.state = "loaded" /\ (~BuildOperation(d).ok \/ ~AddMemo(d).ok)

Contains(msg, part) == \E i \in 1..Len(msg) : msg[i] = part

\* C1: in a run of the submit handler in which address validation fails or
\* buildTransactionXDR raises an error, no request to the relay is issued and
\* the run ends with the callback reporting failure and the handler
\* returning false.
C1_NoSubmitAfterCompileError ==
    (Extracted_ /\ (AddressValidationFails(details) \/ BuildRaises(details, account)))
        => /\ RelayRequests(net) = {}
           /\ pc = "done"
           /\ ret = "false"
           /\ Len(cb) = 1 /\ ~cb[1].success /\ cb[1].error # <<>>

\* A run in which the account was loaded and the builder then raised.
C1_Witness ==
    /\ Extracted_ /\ pc = "done" /\ account.state = "loaded"
    /\ ~BuildOperation(details).ok /\ ret = "false"

AccountFields(d) ==
    {d.sourceAccount, d.destinationAccount, d.asset.issuer, d.sendAsset.issuer,
     d.destAsset.issuer, d.trustAsset.issuer}
    \cup {d.path[i].issuer : i \in 1..Len(d.path)}

\* C2: an intent with a present account-identifier field that does not
\* satisfy the address validator is rejected before the source account is
\* loaded and before anything is submitted.
C2_Claim ==
    (Extracted_ /\ \E a \in AccountFields(details) : InvalidAddress(a))
        => LoadRequests(net) = {} /\ RelayRequests(net) = {}

\* A string of 56 characters, the prefix G and then base32 characters only.
IsAccountIdentifier(v) ==
    /\ v.t = "string"
    /\ Len(v.chars) = AddressLength
    /\ v.chars[1] = "G"
    /\ \A i \in 2..Len(v.chars) : v.chars[i] \in Base32Alphabet

\* C3: isValidStellarAddress returns true exactly for the strings of length
\* 56 that start with G and continue in the base32 alphabet, false otherwise.
C3_Claim ==
    addrOut # "none" => (addrOut = "true" <=> IsAccountIdentifier(addrIn))

\* Zero, negative or not a number.
BadAmount(a) == Truthy(a) /\ (~IsDigits(a) \/ \A i \in 1..Len(a) : a[i] = "0")

\* C4: a payment intent whose other fields are valid and whose amount is
\* zero, negative or non-numeric causes neither an account load nor a relay
\* submission.
C4_Claim ==
    (/\ Extracted_ /\ details.type = "payment"
     /\ details.sourceAccount \in RealKeys /\ details.destinationAccount \in RealKeys
     /\ ResolveAsset(details.asset).ok /\ AddMemo(details).ok
     /\ BadAmount(details.amount))
        => LoadRequests(net) = {} /\ RelayRequests(net) = {}

\* C5: a changeTrust intent without trustAsset.issuer fails with the
\* missing-field error and the source account is not loaded.
C5_Claim ==
    (Extracted_ /\ details.type = "changeTrust" /\ ~Truthy(details.trustAsset.issuer))
        => /\ LoadRequests(net) = {}
           /\ pc = "done" /\ ret = "false"

HasWire(r) == XdrTruthy(r.xdr)
HasPair(r) == r.func # "" \/ r.hasAuth

\* C6: submitTransaction sends no request when the request carries both a
\* wire transaction and a func/auth pair, or neither.
C6_Claim ==
    (cop.name = "submitTransaction" /\ (HasWire(cop.arg) <=> HasPair(cop.arg)))
        => RelayRequests(net) = {}

\* C7: no submission is reported as a success without a transaction hash,
\* neither by submitTransaction nor by the handler's callback.
C7_Claim ==
    /\ result.status = "success" => result.tx # ""
    /\ \A i \in 1..Len(cb) :
          (cb[i].action = SubmitAction /\ cb[i].success) => cb[i].transactionHash # ""

\* The relay answered the submission with a 2xx response whose JSON body
\* carries a transaction hash.
SubmitAnswered ==
    /\ cop.name = "submitTransaction" /\ cop.phase = "done" /\ Len(net) = 2
    /\ net[2].kind = "response" /\ ResponseOk(net[2])
    /\ net[2].json.kind = "object"
    /\ (net[2].json.tx # "" \/ net[2].json.hash # "")

\* C8: when the relay answers a submission with a 2xx response whose JSON
\* body holds a transaction hash (the tx field, else the hash field) and whose
\* X-Credits-Remaining header is c, submitTransaction returns status success
\* with that hash and with c as the remaining credits.
C8_SubmitSuccess ==
    SubmitAnswered
        => /\ cout.kind = "returned"
           /\ cout.value.status = "success"
           /\ cout.value.tx = (IF net[2].json.tx # "" THEN net[2].json.tx
                               ELSE net[2].json.hash)
           /\ cout.value.details.creditsRemaining = net[2].header

\* tx "abc123" with header 899800 was answered and returned.
C8_Witness ==
    /\ SubmitAnswered
    /\ net[2].json.tx = "abc123" /\ net[2].header = "899800"
    /\ cout.value.status = "success" /\ cout.value.tx = "abc123"
    /\ cout.value.details.creditsRemaining = "899800"

\* The error detail of the finished operation: the error of the returned
\* result for submitTransaction, the error thrown for the others.
ErrorDetail ==
    IF cop.name = "submitTransaction"
    THEN IF cout.kind = "returned" /\ cout.value.status = "error"
         THEN cout.value.error ELSE <<>>
    ELSE IF cout.kind = "thrown" THEN cout.err ELSE <<>>

\* C9: every relay client operation answers a non-2xx response with an
\* error whose detail contains the body text of the response.
C9_Claim ==
    (/\ cop.phase = "done" /\ Len(net) = 2
     /\ net[2].kind = "response" /\ ~ResponseOk(net[2]))
        => ErrorDetail # <<>> /\ Contains(ErrorDetail, net[2].text)

IsZero(x) == ~x.nan /\ x.num = 0

\* The /info response of the run carried a credits string that is no number.
NonNumericCredits ==
    /\ handler = "credits" /\ pc = "done" /\ Len(net) = 2
    /\ net[2].kind = "response" /\ ResponseOk(net[2]) /\ net[2].json.kind = "object"
    /\ net[2].json.credits.t = "string"
    /\ Truthy(net[2].json.credits.chars) /\ ~IsDigits(net[2].json.credits.chars)

\* C10: a credits value that is not numeric ends the credit check in the
\* unparseable outcome: no zero is reported as credits or as XLM, and the
\* check is not reported as succeeded.
C10_Claim ==
    NonNumericCredits
        => /\ Len(cb) = 1 /\ cb[1].parsingError /\ ~cb[1].success
           /\ ~IsZero(cb[1].credits) /\ ~IsZero(cb[1].creditsInXLM)
           /\ ret # "true"

\* The /info response of the run was a JSON object whose credits field is
\* absent, null or the empty string.
MissingCredits ==
    /\ handler = "credits" /\ pc = "done" /\ Len(net) = 2
    /\ net[2].kind = "response" /\ ResponseOk(net[2]) /\ net[2].json.kind = "object"
    /\ CreditsToString(net[2].json.credits) = <<>>

\* C11: when the /info body is valid JSON without a credits value, the credit
\* check reports no balance of zero, neither as credits nor as XLM.
C11_Claim ==
    MissingCredits
        => \A i \in 1..Len(cb) :
              /\ ~IsZero(cb[i].credits) /\ ~IsZero(cb[i].creditsInXLM)
              /\ cb[i].creditsString # <<"0">>

\* C12: a run of the submit handler and an invocation of a relay client
\* operation issue at most one request to the relay, also when the request
\* fails: nothing is sent again.
C12_AtMostOneRequest == Cardinality(RelayRequests(net)) <= 1

\* A handler run whose one submission failed and was reported as failed.
C12_Witness ==
    /\ SubmitRunning /\ pc = "done" /\ ret = "false"
    /\ Cardinality(RelayRequests(net)) = 1
    /\ net[Len(net)].kind \in {"response", "neterror"}
    /\ ~MakeRequestReturn(net[Len(net)]).ok

C15_Claim == (pc \in {"awaitRelay", "awaitInfo"}) ~> (pc = "done")

\* The kinds the compiler builds an operation for.
CompiledKinds == {"payment", "createAccount", "changeTrust", "pathPayment"}

UnsupportedKind(d) ==
    d.type \notin CompiledKinds /\ ~(d.type = "xdr" /\ d.xdr # "")

C17_RawWireBypassesCompiler ==
    (Extracted_ /\ details.type = "xdr" /\ details.xdr # "")
        => /\ LoadRequests(net) = {}
           /\ account = NoAccount
           /\ \A i \in RelayRequests(net) :
                 net[i].body.xdr.raw = details.xdr /\ net[i].body.xdr.tx = NoTx

\* The payload was submitted and the relay accepted it.
C17_Witness ==
    /\ Extracted_ /\ details.type = "xdr" /\ details.xdr = "AAAAAgAAAAB"
    /\ pc = "done" /\ ret = "true"
    /\ \E i \in RelayRequests(net) : net[i].body.xdr.raw = "AAAAAgAAAAB"

\* The asset references the compiler resolves for the kind of d.
TopAssetRefs(d) ==
    CASE d.type = "payment" -> {d.asset}
      [] d.type = "pathPayment" -> {d.sendAsset, d.destAsset}
      [] OTHER -> {}

AssetRefs(d) ==
    TopAssetRefs(d)
    \cup (IF d.type = "pathPayment" THEN {d.path[i] : i \in 1..Len(d.path)} ELSE {})

\* A missing code or the code XLM stands for the native asset.
Shorthand(a) == a.code \in {"", "XLM"}

BadIssuer(a) == ~Truthy(a.issuer) \/ ~isValidStellarAddress(JsString(a.issuer))

\* C18: an intent with an asset reference of a non-native code that has no
\* issuer, or an issuer the address validator rejects, submits nothing, and
\* once its compilation ran the run has ended with the failure callback.
C18_BadIssuerFails ==
    (Extracted_ /\ \E a \in AssetRefs(details) : ~Shorthand(a) /\ BadIssuer(a))
        => /\ RelayRequests(net) = {}
           /\ result.status # "success"
           /\ account.state = "loaded"
                 => /\ pc = "done" /\ ret = "false"
                    /\ Len(cb) = 1 /\ ~cb[1].success /\ cb[1].error # <<>>

\* A path payment whose second path element names no issuer failed in the builder.
C18_Witness ==
    /\ Extracted_ /\ details.type = "pathPayment" /\ account.state = "loaded"
    /\ Len(details.path) = 2 /\ details.path[2] = [code |-> "USDC", issuer |-> NoAddr]
    /\ pc = "done" /\ ret = "false" /\ cb[1].error = <<"Issuer cannot be null">>

\* C19: once the compiler runs for a payment or a path payment, every asset
\* reference with a missing code or the code XLM resolves to the native
\* asset, an element of the path as well as asset, sendAsset and destAsset,
\* and a resolved path has the length and the order of the intent's path.
C19_Claim ==
    (Extracted_ /\ account.state = "loaded" /\ details.type \in {"payment", "pathPayment"})
        => /\ \A a \in TopAssetRefs(details) :
                 Shorthand(a) => ResolveAsset(a) = Ok(NativeAsset)
           /\ details.type = "pathPayment"
                 => /\ \A i \in 1..Len(details.path) :
                          Shorthand(details.path[i])
                              => ResolvePathElement(details.path[i]) = Ok(NativeAsset)
                    /\ ResolvePath(details.path).ok
                          => /\ Len(ResolvePath(details.path).val) = Len(details.path)
                             /\ \A i \in 1..Len(details.path) :
                                   ResolvePath(details.path).val[i]
                                       = ResolvePathElement(details.path[i]).val

KeyMissing(rt, e) == rt.LAUNCHTUBE_API_KEY = "" /\ e.LAUNCHTUBE_API_KEY = ""

UrlMalformed(rt, e) ==
    \/ rt.LAUNCHTUBE_BASE_URL # "" /\ rt.LAUNCHTUBE_BASE_URL \notin ValidUrls
    \/ rt.LAUNCHTUBE_BASE_URL = "" /\ e.LAUNCHTUBE_BASE_URL # ""
          /\ e.LAUNCHTUBE_BASE_URL \notin ValidUrls

\* The run has called initialize(runtime).
InitializeCalled ==
    \/ handler = "credits"
    \/ Extracted_ /\ ValidateAddresses(details).ok

ErrorOutcome ==
    \/ cout.kind = "thrown" /\ cout.err # <<>>
    \/ cop.name = "submitTransaction" /\ cout.kind = "returned"
          /\ cout.value.status = "error"

\* C20: initialize(runtime) rejects when the API key is missing or the base
\* URL is malformed, leaving the service without config and the run failed
\* with no request; and an operation of a service without config issues no
\* request and ends in an error.
C20_FailFast ==
    /\ (InitializeCalled /\ (KeyMissing(runtime, env) \/ UrlMalformed(runtime, env)))
          => /\ ~config.set /\ net = <<>>
             /\ pc = "done" /\ ret = "false"
             /\ Len(cb) = 1 /\ ~cb[1].success /\ cb[1].error # <<>>
    /\ (cop.phase # "idle" /\ ~cop.cfg.set)
          => /\ net = <<>>
             /\ cop.phase = "done" /\ ErrorOutcome

\* checkCredits on a service that was never initialized threw.
C20_Witness ==
    /\ cop.name = "checkCredits" /\ ~cop.cfg.set /\ cop.phase = "done"
    /\ cout.kind = "thrown" /\ cout.err = <<"LaunchtubeService not initialized">>

\* The mock runtime of the tests: getSetting returns the same non-empty
\* string for every key.
MockRuntime(rt) ==
    /\ rt.LAUNCHTUBE_API_KEY # ""
    /\ rt.LAUNCHTUBE_BASE_URL = rt.LAUNCHTUBE_API_KEY
    /\ rt.STELLAR_NETWORK = rt.LAUNCHTUBE_API_KEY

\* C21: validate of either action returns true for the runtime of the tests,
\* which supplies an API key, returns false when neither the runtime nor the
\* environment has an API key, and returns a boolean in every case.
C21_Claim ==
    (handler \in {"validateSubmit", "validateCredits"} /\ pc = "done")
        => /\ ret \in {"true", "false"}
           /\ MockRuntime(runtime) => ret = "true"
           /\ KeyMissing(runtime, env) => ret = "false"

Blank(c) == c \in {"\"", " ", "\n", "\t"}

\* The token marker in h: the word token in any case, blanks or quotes, a
\* colon or an equals sign, blanks or quotes, and then at position r a
\* character of the token itself.
MarkerAt(h, p, q, r) ==
    /\ p + 4 < q /\ q < r /\ r <= Len(h)
    /\ h[p] \in {"t", "T"} /\ h[p + 1] \in {"o", "O"} /\ h[p + 2] \in {"k", "K"}
    /\ h[p + 3] \in {"e", "E"} /\ h[p + 4] \in {"n", "N"}
    /\ \A i \in (p + 5)..(q - 1) : Blank(h[i])
    /\ h[q] \in {":", "="}
    /\ \A i \in (q + 1)..(r - 1) : Blank(h[i])
    /\ ~Blank(h[r]) /\ h[r] # "'"

HasMarker(h) == \E p, q, r \in 1..Len(h) : MarkerAt(h, p, q, r)

\* t is the text that follows a marker of h, up to the next blank or quote.
FollowsMarker(t, h) ==
    \E p, q, r \in 1..Len(h) :
        /\ MarkerAt(h, p, q, r)
        /\ r + Len(t) - 1 <= Len(h) /\ SubSeq(h, r, r + Len(t) - 1) = t
        /\ \A i \in 1..Len(t) : ~Blank(t[i]) /\ t[i] # "'"
        /\ (r + Len(t) <= Len(h) => (Blank(h[r + Len(t)]) \/ h[r + Len(t)] = "'"))

\* claimToken got a 2xx response.
ClaimAnswered ==
    /\ cop.name = "claimToken" /\ cop.phase = "done" /\ Len(net) = 2
    /\ net[2].kind = "response" /\ ResponseOk(net[2])

\* C22: claimToken returns a token only when the response holds the token
\* marker, and then the non-empty text that follows the marker; without the
\* marker it throws the extraction error and returns nothing.
C22_TokenOnlyFromMarker ==
    /\ (cop.name = "claimToken" /\ cout.kind = "returned")
          => /\ ClaimAnswered /\ HasMarker(net[2].html)
             /\ cout.value.token # <<>>
             /\ FollowsMarker(cout.value.token, net[2].html)
    /\ (ClaimAnswered /\ ~HasMarker(net[2].html))
          => /\ cout.kind = "thrown"
             /\ cout.err = <<"Could not extract token from claim response">>

\* A page without the marker made claimToken throw.
C22_Witness ==
    /\ ClaimAnswered /\ net[2].text = "<p>none</p>"
    /\ cout.kind = "thrown"
    /\ cout.err = <<"Could not extract token from claim response">>

RunReady == ValidateAddresses(details).ok /\ validateLaunchtubeConfig(runtime, env).ok

\* C24: a submission does not depend on a credit balance seen before. Whatever
\* the last credit check showed (nothing, zero, a positive or an unparseable
\* balance), a run with a supplied envelope sends it, a run that compiled a
\* transaction sends that, and the result is the relay's answer alone.
C24_SubmitIgnoresBalance ==
    (SubmitRunning /\ pc \in {"awaitLoad", "awaitRelay", "done"})
        => /\ (RunReady /\ details.type = "xdr" /\ details.xdr # "")
                 => /\ Len(net) >= 1 /\ net[1].kind = "relay"
                    /\ net[1].body.xdr = RawXDR(details.xdr)
           /\ (RunReady /\ account.state = "loaded"
                  /\ BuildAfterLoad(runtime, details, account).ok)
                 => /\ Len(net) >= 2 /\ net[2].kind = "relay"
                    /\ net[2].body.xdr = BuildAfterLoad(runtime, details, account).val
           /\ (pc = "done" /\ RelayRequests(net) # {})
                 => result = SubmitReturn(MakeRequestReturn(net[Len(net)]))

\* A submission succeeded after a credit check that showed zero or an
\* unparseable balance.
C24_Witness ==
    /\ lastCredits \in {"zero", "unparseable"}
    /\ SubmitRunning /\ pc = "done" /\ result.status = "success"

\* The compiled transactions among the requests sent to the relay.
CompiledRequests ==
    {i \in RelayRequests(net) : net[i].endpoint = "/" /\ net[i].body.xdr.tx # NoTx}

\* C25: every compiled transaction carries a time bound of at most 30
\* seconds, for every kind of operation, with a memo or without.
C25_BoundedTimeout ==
    \A i \in CompiledRequests :
        /\ net[i].body.xdr.tx.timeout >= 1
        /\ net[i].body.xdr.tx.timeout <= 30

\* A compiled transaction with a memo was sent.
C25_Witness ==
    \E i \in CompiledRequests : net[i].body.xdr.tx.memo.type # "none"

\* C26: an intent with a memo compiles to a transaction with exactly that
\* memo, of the given kind or text when none is given, or compilation fails:
\* no transaction is compiled without the memo.
C26_Claim ==
    (SubmitRunning /\ Truthy(details.memo))
        => \A i \in CompiledRequests :
               /\ net[i].body.xdr.tx.memo.type = Or(details.memoType, "text")
               /\ net[i].body.xdr.tx.memo.value = details.memo

\* The requests in log carry the base URL and the bearer token that
\* validateLaunchtubeConfig yields for the runtime rt and the environment e.
RequestsFrom(log, rt, e) ==
    \A i \in RelayRequests(log) :
        /\ validateLaunchtubeConfig(rt, e).ok
        /\ log[i].base = validateLaunchtubeConfig(rt, e).val.LAUNCHTUBE_BASE_URL
        /\ log[i].bearer = validateLaunchtubeConfig(rt, e).val.LAUNCHTUBE_API_KEY

\* C27: handler runs at the same time share no service state: under every
\* interleaving the requests of a run carry the base URL and bearer token of
\* that run's own runtime, never those of the other run.
C27_RunsUseOwnConfig ==
    /\ RequestsFrom(net, runtime, env)
    /\ RequestsFrom(other.net, other.runtime, other.env)

\* A second run with another runtime was initialized while the first run
\* awaited loadAccount, and the first run then sent its transaction.
C27_Witness ==
    /\ SubmitRunning /\ pc = "awaitRelay" /\ Len(net) = 2
    /\ other.state = "awaitInfo" /\ other.during = "awaitLoad"
    /\ other.config.LAUNCHTUBE_API_KEY # config.LAUNCHTUBE_API_KEY
    /\ other.config.LAUNCHTUBE_BASE_URL # config.LAUNCHTUBE_BASE_URL

\* C28: a handler run, submit or credits, invokes the callback exactly once,
\* and the boolean it returns equals the success flag of the callback's
\* content.
C28_Claim ==
    (handler \in {"submit", "credits"} /\ pc = "done")
        => /\ Len(cb) = 1
           /\ (ret = "true") <=> cb[1].success

\* C29: the network a run compiles for, the horizon server it loads the
\* account from and the passphrase of the transaction, is the STELLAR_NETWORK
\* of the configuration validated in the same run.
C29_Claim ==
    (SubmitRunning /\ config.set)
        => /\ \A i \in LoadRequests(net) :
                  net[i].base = IF config.STELLAR_NETWORK = "mainnet"
                                THEN "https://horizon.stellar.org"
                                ELSE "https://horizon-testnet.stellar.org"
           /\ \A i \in CompiledRequests :
                  net[i].body.xdr.tx.networkPassphrase =
                      IF config.STELLAR_NETWORK = "mainnet"
                      THEN "Public Global Stellar Network ; September 2015"
                      ELSE "Test SDF Network ; September 2015"

\* The operation in progress failed: the service was not initialized, the
\* request was rejected, or the relay answered with a status outside 2xx.
ClientFailed ==
    \/ ~cop.cfg.set
    \/ Len(net) = 2 /\ (net[2].kind = "neterror" \/ ~ResponseOk(net[2]))

=============================================================================
